---- MODULE Spec2Model ----
(***************************************************************************)
(* A model of plugins/ReadPlmXml.py: parse_plmxml (record build, identifier*)
(* registry, reference resolution) and the two renderers output_as_yaml    *)
(* and output_as_brief.                                                    *)
(*                                                                         *)
(* Strings are sequences of one-character strings, so that str.split(),    *)
(* int() and float() are computed and not assumed.  Strings whose inner    *)
(* structure the program never inspects (titles, names) are one-symbol     *)
(* sequences.  Python's None is the value None below; an optional object   *)
(* is a sequence of length 0 (None) or 1.  An object reference is a handle *)
(* [kind, idx, sub] into the built InstanceGraph, so that two fields that  *)
(* hold the same Python object hold the same handle.                       *)
(*                                                                         *)
(* Not modelled: TableAttribute/Row/Column, Contexts, Definitions and the  *)
(* Header's children (no element of the model's documents carries them),   *)
(* the command line (main's argument and file handling).                   *)
(***************************************************************************)
EXTENDS Integers, Sequences, FiniteSets, TLC

VARIABLES
    xml,               \* the element tree ET.fromstring hands to PLMXML(root)
    pc,                \* where the caller of parse_plmxml / output_as_* is
    plmxml,            \* <<>> or <<the PLMXML object>>
    id_to_object_map,  \* parse_plmxml's registry: identifier -> handle
    yaml_outputs,      \* the values output_as_yaml returned, in call order
    brief_outputs,     \* the values output_as_brief returned, in call order
    output_lines,      \* output_as_brief's local output_lines
    output_objects,    \* output_as_brief's local visited set
    stack,             \* pending calls of output_object_recursive, top first
    prior_registry     \* the registry the parse_plmxml call before this one built

vars == <<xml, pc, plmxml, id_to_object_map, yaml_outputs, brief_outputs,
          output_lines, output_objects, stack, prior_registry>>

-----------------------------------------------------------------------------
(* Strings                                                                 *)

None == <<"<None>">>

Whitespace == {" "}

Digits == {"0", "1", "2"}

DigitVal == [d \in Digits |-> CASE d = "0" -> 0 [] d = "1" -> 1 [] d = "2" -> 2]

\* Python truthiness of an optional string: None and "" are falsy.
Truthy(s) == s # None /\ s # <<>>

\* str.split() without arguments: the maximal runs of non-whitespace.
RECURSIVE split_from(_, _, _)
split_from(s, cur, acc) ==
    IF s = <<>>
    THEN IF cur = <<>> THEN acc ELSE Append(acc, cur)
    ELSE IF Head(s) \in Whitespace
         THEN split_from(Tail(s), <<>>, IF cur = <<>> THEN acc ELSE Append(acc, cur))
         ELSE split_from(Tail(s), Append(cur, Head(s)), acc)

split(s) == split_from(s, <<>>, <<>>)

\* str.strip(): leading and trailing whitespace removed.
RECURSIVE lstrip(_)
lstrip(s) == IF s # <<>> /\ Head(s) \in Whitespace THEN lstrip(Tail(s)) ELSE s

RECURSIVE rstrip(_)
rstrip(s) ==
    IF s # <<>> /\ s[Len(s)] \in Whitespace THEN rstrip(SubSeq(s, 1, Len(s) - 1)) ELSE s

strip(s) == rstrip(lstrip(s))

\* The decimal numerals int() and float() accept (signs, exponents and
\* fractions are outside the model's alphabet).
IsNumeral(s) == s # None /\ s # <<>> /\ \A i \in 1..Len(s) : s[i] \in Digits

RECURSIVE NumeralValue(_)
NumeralValue(s) ==
    IF s = <<>> THEN 0 ELSE 10 * NumeralValue(SubSeq(s, 1, Len(s) - 1)) + DigitVal[s[Len(s)]]

\* int(x) for a string x: surrounding whitespace is ignored.
int_raises(s) == ~IsNumeral(strip(s))
int(s) == NumeralValue(strip(s))

\* float(x) for a string x (None raises TypeError).
float_raises(s) == s = None \/ ~IsNumeral(strip(s))
float(s) == NumeralValue(strip(s))

-----------------------------------------------------------------------------
(* Elements: what xml.etree.ElementTree exposes                            *)

\* A tag is a sequence of words ('CompoundRep' is <<"Compound", "Rep">>).
PLMXMLTag == <<"PLMXML">>
HeaderTag == <<"Header">>
ProductDefTag == <<"Product", "Def">>
InstanceGraphTag == <<"Instance", "Graph">>
InstanceTag == <<"Instance">>
PartTag == <<"Part">>
GeneralObjectTag == <<"General", "Object">>
RelationTag == <<"Relation">>
RepresentationTag == <<"Representation">>
CompoundRepTag == <<"Compound", "Rep">>
TransformTag == <<"Transform">>
UserDataTag == <<"User", "Data">>
UserValueTag == <<"User", "Value">>

\* str.endswith on tags, at word granularity.
endswith(tag, suffix) ==
    /\ Len(tag) >= Len(suffix)
    /\ SubSeq(tag, Len(tag) - Len(suffix) + 1, Len(tag)) = suffix

\* element.get(name): the attribute's value, or None when it is absent.
get(element, name) ==
    IF name \in DOMAIN element.attrs THEN element.attrs[name] ELSE None

\* [F(child) for child in element if child.tag.endswith(suffix)]
children_with(element, suffix) ==
    SelectSeq(element.children, LAMBDA c : endswith(c.tag, suffix))

\* element.text or ""
text_or_empty(element) == IF element.text = None THEN <<>> ELSE element.text

-----------------------------------------------------------------------------
(* Records: one operator per class, translated from its __init__           *)

MatrixCells == 16
MatrixRowLen == 4

Min(a, b) == IF a < b THEN a ELSE b

\* Python's s[lo:hi] for 0 <= lo <= hi: never raises, clips to the length.
slice(s, lo, hi) == SubSeq(s, Min(lo, Len(s)) + 1, Min(hi, Len(s)))

map_seq(F(_), s) == [i \in 1..Len(s) |-> F(s[i])]

\* Transform.__init__ raises ValueError when a token is no number.
Transform_raises(element) ==
    \E i \in 1..Len(split(text_or_empty(element))) :
        float_raises(split(text_or_empty(element))[i])

\* Transform.__init__: one slice per row start 0, 4, 8, 12.
Transform(element) ==
    LET tokens == split(text_or_empty(element))
        float_values == [i \in 1..Len(tokens) |-> float(tokens[i])]
    IN [id |-> get(element, "id"),
        matrix |-> [r \in 1..(MatrixCells \div MatrixRowLen) |->
                       slice(float_values, (r - 1) * MatrixRowLen, r * MatrixRowLen)]]

UserValue(element) ==
    [title |-> get(element, "title"), value |-> get(element, "value")]

UserData(element) ==
    [type |-> get(element, "type"),
     user_values |-> map_seq(UserValue, children_with(element, UserValueTag))]

NomenclatureTitle == <<"Nomenclature">>

\* The inner loop of the nomenclature scan: the value of the first
\* UserValue of the block titled 'Nomenclature', else what was held.
RECURSIVE scan_user_values(_, _)
scan_user_values(user_values, nomenclature) ==
    IF user_values = <<>> THEN nomenclature
    ELSE IF Head(user_values).title = NomenclatureTitle
         THEN Head(user_values).value
         ELSE scan_user_values(Tail(user_values), nomenclature)

\* The outer loop: it stops after the first block that leaves nomenclature
\* not None.
RECURSIVE scan_user_data(_, _)
scan_user_data(user_data, nomenclature) ==
    IF user_data = <<>> THEN nomenclature
    ELSE LET found == scan_user_values(Head(user_data).user_values, nomenclature)
         IN IF found # None THEN found ELSE scan_user_data(Tail(user_data), found)

nomenclature_of(user_data) == scan_user_data(user_data, None)

\* The last child whose tag matches: each match overwrites the field.
last_child(element, suffix) ==
    LET cs == children_with(element, suffix)
    IN IF cs = <<>> THEN <<>> ELSE <<cs[Len(cs)]>>

opt_map(F(_), opt) == IF opt = <<>> THEN <<>> ELSE <<F(opt[1])>>

any_raises(R(_), s) == \E i \in 1..Len(s) : R(s[i])

CompoundRep_raises(element) ==
    any_raises(Transform_raises, children_with(element, TransformTag))

CompoundRep(element) ==
    [kind |-> "CompoundRep",
     id |-> get(element, "id"),
     format |-> get(element, "format"),
     location |-> get(element, "location"),
     name |-> get(element, "name"),
     transform |-> opt_map(Transform, last_child(element, TransformTag)),
     user_data |-> map_seq(UserData, children_with(element, UserDataTag))]

Representation_raises(element) ==
    any_raises(CompoundRep_raises, children_with(element, CompoundRepTag))

Representation(element) ==
    [kind |-> "Representation",
     id |-> get(element, "id"),
     format |-> get(element, "format"),
     compound_reps |-> map_seq(CompoundRep, children_with(element, CompoundRepTag))]

Part_raises(element) ==
    any_raises(Representation_raises, children_with(element, RepresentationTag))

Part(element) ==
    LET user_data == map_seq(UserData, children_with(element, UserDataTag))
    IN [kind |-> "Part",
        id |-> get(element, "id"),
        name |-> get(element, "name"),
        representation_refs |-> get(element, "representationRefs"),
        instance_refs |-> get(element, "instanceRefs"),
        representation |-> opt_map(Representation, last_child(element, RepresentationTag)),
        user_data |-> user_data,
        child_objects |-> <<>>,
        nomenclature |-> nomenclature_of(user_data)]

\* int(element.get('quantity', 1)) if element.get('quantity') else 1
Instance_quantity_raises(element) ==
    Truthy(get(element, "quantity")) /\ int_raises(get(element, "quantity"))

\* Faulty variant: the parsed value is tested for truth, so 0 falls to the default.
Instance_quantity_or_default(element) ==
    IF Truthy(get(element, "quantity")) /\ int(get(element, "quantity")) # 0
    THEN int(get(element, "quantity"))
    ELSE 1

Instance_quantity(element) ==
    IF Truthy(get(element, "quantity")) THEN int(get(element, "quantity")) ELSE 1

Instance_raises(element) ==
    \/ Instance_quantity_raises(element)
    \/ any_raises(Transform_raises, children_with(element, TransformTag))

Instance(element) ==
    LET user_data == map_seq(UserData, children_with(element, UserDataTag))
    IN [kind |-> "Instance",
        id |-> get(element, "id"),
        part_ref |-> get(element, "partRef"),
        quantity |-> Instance_quantity(element),
        transform |-> opt_map(Transform, last_child(element, TransformTag)),
        user_data |-> user_data,
        part_references |-> <<>>,
        nomenclature |-> nomenclature_of(user_data)]

GeneralObject(element) ==
    [kind |-> "GeneralObject",
     id |-> get(element, "id"),
     class_name |-> get(element, "class"),
     user_data |-> map_seq(UserData, children_with(element, UserDataTag))]

Relation(element) ==
    [kind |-> "Relation",
     id |-> get(element, "id"),
     related_refs |-> get(element, "relatedRefs"),
     sub_type |-> get(element, "subType"),
     user_data |-> map_seq(UserData, children_with(element, UserDataTag)),
     related_objects |-> <<>>]

InstanceGraph_raises(element) ==
    \/ any_raises(Instance_raises, children_with(element, InstanceTag))
    \/ any_raises(Part_raises, children_with(element, PartTag))

InstanceGraph(element) ==
    [root_refs |-> get(element, "rootRefs"),
     instances |-> map_seq(Instance, children_with(element, InstanceTag)),
     parts |-> map_seq(Part, children_with(element, PartTag)),
     general_objects |-> map_seq(GeneralObject, children_with(element, GeneralObjectTag)),
     relations |-> map_seq(Relation, children_with(element, RelationTag))]

ProductDef_raises(element) ==
    any_raises(InstanceGraph_raises, children_with(element, InstanceGraphTag))

ProductDef(element) ==
    [instance_graph |-> opt_map(InstanceGraph, last_child(element, InstanceGraphTag))]

Header(element) ==
    [author |-> get(element, "author"),
     creation_date |-> get(element, "creationDate"),
     definition |-> get(element, "definition")]

\* float(element.get('schemaVersion')) raises on an absent or malformed
\* attribute; a child that raises makes the constructor raise.
PLMXML_raises(element) ==
    \/ float_raises(get(element, "schemaVersion"))
    \/ any_raises(ProductDef_raises, children_with(element, ProductDefTag))

PLMXML(element) ==
    [author |-> get(element, "author"),
     date |-> get(element, "date"),
     schema_version |-> float(get(element, "schemaVersion")),
     time |-> get(element, "time"),
     product_def |-> opt_map(ProductDef, last_child(element, ProductDefTag)),
     header |-> opt_map(Header, last_child(element, HeaderTag))]

-----------------------------------------------------------------------------
(* parse_plmxml: registry population and reference resolution              *)

EmptyMap == [k \in {} |-> k]

HasGraph(p) == p.product_def # <<>> /\ p.product_def[1].instance_graph # <<>>

graph_of(p) == p.product_def[1].instance_graph[1]

\* Object references.
handle(kind, idx, sub) == [kind |-> kind, idx |-> idx, sub |-> sub]

deref(graph, h) ==
    CASE h.kind = "Instance" -> graph.instances[h.idx]
      [] h.kind = "Part" -> graph.parts[h.idx]
      [] h.kind = "GeneralObject" -> graph.general_objects[h.idx]
      [] h.kind = "Relation" -> graph.relations[h.idx]
      [] h.kind = "Representation" -> graph.parts[h.idx].representation[1]
      [] h.kind = "CompoundRep" ->
            graph.parts[h.idx].representation[1].compound_reps[h.sub]

instance_handles(graph) == [i \in 1..Len(graph.instances) |-> handle("Instance", i, 0)]
part_handles(graph) == [i \in 1..Len(graph.parts) |-> handle("Part", i, 0)]
general_object_handles(graph) ==
    [i \in 1..Len(graph.general_objects) |-> handle("GeneralObject", i, 0)]
relation_handles(graph) == [i \in 1..Len(graph.relations) |-> handle("Relation", i, 0)]
compound_rep_handles(graph, i) ==
    [j \in 1..Len(graph.parts[i].representation[1].compound_reps) |->
        handle("CompoundRep", i, j)]

\* Faulty variant: an identifier that is already a key is kept (first one wins).
RECURSIVE add_to_map_first_wins(_, _, _)
add_to_map_first_wins(map, graph, obj_list) ==
    IF obj_list = <<>> THEN map
    ELSE add_to_map_first_wins(
             IF Truthy(deref(graph, Head(obj_list)).id)
                /\ deref(graph, Head(obj_list)).id \notin DOMAIN map
             THEN (deref(graph, Head(obj_list)).id :> Head(obj_list)) @@ map
             ELSE map,
             graph, Tail(obj_list))

\* add_to_map: every object with a truthy id is stored under it, in list
\* order, a later one replacing an earlier one.
RECURSIVE add_to_map(_, _, _)
add_to_map(map, graph, obj_list) ==
    IF obj_list = <<>> THEN map
    ELSE add_to_map(IF Truthy(deref(graph, Head(obj_list)).id)
                    THEN (deref(graph, Head(obj_list)).id :> Head(obj_list)) @@ map
                    ELSE map,
                    graph, Tail(obj_list))

\* Faulty variant: the Representation is registered with its CompoundReps.
RECURSIVE add_compound_reps_and_representations(_, _, _)
add_compound_reps_and_representations(map, graph, i) ==
    IF i > Len(graph.parts) THEN map
    ELSE add_compound_reps_and_representations(
             IF graph.parts[i].representation # <<>>
             THEN add_to_map(add_to_map(map, graph, <<handle("Representation", i, 0)>>),
                             graph, compound_rep_handles(graph, i))
             ELSE map,
             graph, i + 1)

\* The loop over the Parts' Representations, from Part i on.
RECURSIVE add_compound_reps(_, _, _)
add_compound_reps(map, graph, i) ==
    IF i > Len(graph.parts) THEN map
    ELSE add_compound_reps(IF graph.parts[i].representation # <<>>
                           THEN add_to_map(map, graph, compound_rep_handles(graph, i))
                           ELSE map,
                           graph, i + 1)

\* The four add_to_map calls on the InstanceGraph's lists.
add_graph_lists(map, graph) ==
    add_to_map(
        add_to_map(
            add_to_map(
                add_to_map(map, graph, instance_handles(graph)),
                graph, part_handles(graph)),
            graph, general_object_handles(graph)),
        graph, relation_handles(graph))

\* Faulty variant: the registry is one dictionary that outlives the call;
\* a later call adds to what the call before it left.
populate_registry_onto_prior(p) ==
    IF HasGraph(p)
    THEN add_compound_reps(add_graph_lists(prior_registry, graph_of(p)), graph_of(p), 1)
    ELSE prior_registry

\* parse_plmxml from `id_to_object_map = {}` to the last add_to_map call.
populate_registry(p) ==
    IF HasGraph(p)
    THEN add_compound_reps(add_graph_lists(EmptyMap, graph_of(p)), graph_of(p), 1)
    ELSE EmptyMap

\* Faulty variant: the hits come out in reverse token order.
lookup_all_reversed(map, refs) ==
    LET hits == SelectSeq(refs, LAMBDA ref : ref \in DOMAIN map)
    IN [i \in 1..Len(hits) |-> map[hits[Len(hits) + 1 - i]]]

\* [id_to_object_map[ref] for ref in refs if ref in id_to_object_map]
lookup_all(map, refs) ==
    LET hits == SelectSeq(refs, LAMBDA ref : ref \in DOMAIN map)
    IN [i \in 1..Len(hits) |-> map[hits[i]]]

\* Faulty variant: the hits are added to the list the field holds.
resolve_field_extending(map, raw, held) ==
    IF Truthy(raw) THEN held \o lookup_all(map, split(raw)) ELSE held

\* One reference field: left alone unless the raw string is truthy.
resolve_field(map, raw, held) ==
    IF Truthy(raw) THEN lookup_all(map, split(raw)) ELSE held

\* Faulty variant: partRef is resolved against the registry as it stands after
\* add_to_map(graph.instances), before the other lists are added.
resolve_instance_early(map, instance) ==
    LET early == [k \in {k \in DOMAIN map : map[k].kind = "Instance"} |-> map[k]]
    IN [instance EXCEPT !.part_references =
           IF Truthy(instance.part_ref)
           THEN LET hits == SelectSeq(split(instance.part_ref),
                                      LAMBDA ref : ref \in DOMAIN early)
                IN [i \in 1..Len(hits) |-> early[hits[i]]]
           ELSE instance.part_references]

resolve_instance(map, instance) ==
    [instance EXCEPT !.part_references =
        resolve_field(map, instance.part_ref, instance.part_references)]

resolve_relation(map, relation) ==
    [relation EXCEPT !.related_objects =
        resolve_field(map, relation.related_refs, relation.related_objects)]

resolve_part(map, part) ==
    [part EXCEPT !.child_objects =
        resolve_field(map, part.instance_refs, part.child_objects)]

resolve_graph(map, graph) ==
    [graph EXCEPT
        !.instances = [i \in 1..Len(graph.instances) |->
                          resolve_instance(map, graph.instances[i])],
        !.relations = [i \in 1..Len(graph.relations) |->
                          resolve_relation(map, graph.relations[i])],
        !.parts = [i \in 1..Len(graph.parts) |-> resolve_part(map, graph.parts[i])]]

resolve_references(map, p) ==
    IF HasGraph(p)
    THEN [p EXCEPT !.product_def[1].instance_graph[1] = resolve_graph(map, graph_of(p))]
    ELSE p

-----------------------------------------------------------------------------
(* output_as_yaml: the to_dict methods.  A dict is a function from keys.   *)

EmptyDict == [k \in {} |-> k]

\* A key that is set only under a condition.
opt_key(cond, key, value) == IF cond THEN key :> value ELSE EmptyDict

ids_of(graph, refs) == [i \in 1..Len(refs) |-> deref(graph, refs[i]).id]

Transform_to_dict(t) == [id |-> t.id, matrix |-> t.matrix]

UserValue_to_dict(uv) == [title |-> uv.title, value |-> uv.value]

UserData_to_dict(ud) ==
    [type |-> ud.type, user_values |-> map_seq(UserValue_to_dict, ud.user_values)]

CompoundRep_to_dict(cr) ==
    [id |-> cr.id, format |-> cr.format, location |-> cr.location, name |-> cr.name]
    @@ opt_key(cr.transform # <<>>, "transform", Transform_to_dict(cr.transform[1]))
    @@ opt_key(cr.user_data # <<>>, "user_data", map_seq(UserData_to_dict, cr.user_data))

Representation_to_dict(rep) ==
    [id |-> rep.id, format |-> rep.format,
     compound_reps |-> map_seq(CompoundRep_to_dict, rep.compound_reps)]

Part_child_objects_to_dict(graph, part) == ids_of(graph, part.child_objects)

Part_to_dict(graph, part) ==
    [id |-> part.id, name |-> part.name,
     representation_refs |-> part.representation_refs,
     instance_refs |-> part.instance_refs]
    @@ opt_key(part.representation # <<>>, "representation",
               Representation_to_dict(part.representation[1]))
    @@ opt_key(part.user_data # <<>>, "user_data",
               map_seq(UserData_to_dict, part.user_data))
    @@ opt_key(part.child_objects # <<>>, "child_objects",
               Part_child_objects_to_dict(graph, part))

\* Faulty variant: the raw tokens are shown in place of the resolved records' ids.
Instance_part_references_raw(graph, instance) == split(instance.part_ref)

Instance_part_references_to_dict(graph, instance) ==
    ids_of(graph, instance.part_references)

Instance_to_dict(graph, instance) ==
    [id |-> instance.id, part_ref |-> instance.part_ref, quantity |-> instance.quantity]
    @@ opt_key(instance.transform # <<>>, "transform",
               Transform_to_dict(instance.transform[1]))
    @@ opt_key(instance.user_data # <<>>, "user_data",
               map_seq(UserData_to_dict, instance.user_data))
    @@ opt_key(instance.part_references # <<>>, "part_references",
               Instance_part_references_to_dict(graph, instance))

GeneralObject_to_dict(go) ==
    [id |-> go.id, class_name |-> go.class_name]
    @@ opt_key(go.user_data # <<>>, "user_data", map_seq(UserData_to_dict, go.user_data))

Relation_related_objects_to_dict(graph, relation) ==
    ids_of(graph, relation.related_objects)

Relation_to_dict(graph, relation) ==
    [id |-> relation.id, related_refs |-> relation.related_refs,
     sub_type |-> relation.sub_type]
    @@ opt_key(relation.user_data # <<>>, "user_data",
               map_seq(UserData_to_dict, relation.user_data))
    @@ opt_key(relation.related_objects # <<>>, "related_objects",
               Relation_related_objects_to_dict(graph, relation))

InstanceGraph_to_dict(graph) ==
    [root_refs |-> graph.root_refs,
     instances |-> [i \in 1..Len(graph.instances) |->
                       Instance_to_dict(graph, graph.instances[i])],
     parts |-> [i \in 1..Len(graph.parts) |-> Part_to_dict(graph, graph.parts[i])],
     general_objects |-> map_seq(GeneralObject_to_dict, graph.general_objects),
     relations |-> [i \in 1..Len(graph.relations) |->
                       Relation_to_dict(graph, graph.relations[i])]]

ProductDef_to_dict(pd) ==
    opt_key(pd.instance_graph # <<>>, "instance_graph",
            InstanceGraph_to_dict(pd.instance_graph[1]))

Header_to_dict(h) ==
    [author |-> h.author, creation_date |-> h.creation_date, definition |-> h.definition]

PLMXML_to_dict(p) ==
    [author |-> p.author, date |-> p.date, schema_version |-> p.schema_version,
     time |-> p.time]
    @@ opt_key(p.product_def # <<>>, "product_def", ProductDef_to_dict(p.product_def[1]))
    @@ opt_key(p.header # <<>>, "header", Header_to_dict(p.header[1]))

\* yaml.dump is library code: its text is taken to be a faithful rendering
\* of the tree to_dict hands it, so the tree stands for the text.
output_as_yaml(p) == PLMXML_to_dict(p)

-----------------------------------------------------------------------------
(* Transform.matrix_as_string                                              *)

DigitChar(n) == CHOOSE d \in Digits : DigitVal[d] = n

RECURSIVE ToNumeral(_)
ToNumeral(n) ==
    IF n < 10 THEN <<DigitChar(n)>> ELSE ToNumeral(n \div 10) \o <<DigitChar(n % 10)>>

\* f"{val:.3f}" of a whole number.
format_3f(val) == ToNumeral(val) \o <<".", "0", "0", "0">>

RECURSIVE join(_, _)
join(sep, parts) ==
    IF parts = <<>> THEN <<>>
    ELSE IF Len(parts) = 1 THEN parts[1]
    ELSE parts[1] \o sep \o join(sep, Tail(parts))

RECURSIVE flatten(_)
flatten(rows) == IF rows = <<>> THEN <<>> ELSE Head(rows) \o flatten(Tail(rows))

\* The identity test visits the cells row by row (k = 0..15 is cell
\* [k div 4][k mod 4]) and stops at the first one that differs.
cell_row(k) == (k \div MatrixRowLen) + 1
cell_col(k) == (k % MatrixRowLen) + 1
cell_missing(matrix, k) ==
    Len(matrix) < cell_row(k) \/ Len(matrix[cell_row(k)]) < cell_col(k)
cell_differs(matrix, k) ==
    matrix[cell_row(k)][cell_col(k)] # (IF cell_row(k) = cell_col(k) THEN 1 ELSE 0)
cell_stops(matrix, k) == cell_missing(matrix, k) \/ cell_differs(matrix, k)

\* self.matrix[i][j] raises IndexError at the first visited cell that is
\* not there.
matrix_as_string_raises(matrix) ==
    /\ matrix # <<>>
    /\ \E k \in 0..(MatrixCells - 1) :
          /\ cell_missing(matrix, k)
          /\ \A k2 \in 0..(k - 1) : ~cell_stops(matrix, k2)

matrix_as_string(matrix) ==
    IF matrix # <<>>
    THEN IF \A k \in 0..(MatrixCells - 1) : ~cell_stops(matrix, k)
         THEN <<"Identity">>
         ELSE <<"[">> \o join(<<" ">>, map_seq(format_3f, flatten(matrix))) \o <<"]">>
    ELSE <<"[", "]">>

-----------------------------------------------------------------------------
(* output_as_brief                                                         *)

\* {obj.id: obj for obj in objs}: the last object of each id.
last_index(ids, k) == CHOOSE i \in 1..Len(ids) : ids[i] = k /\ \A j \in (i + 1)..Len(ids) : ids[j] # k

part_map(graph) ==
    LET ids == [i \in 1..Len(graph.parts) |-> graph.parts[i].id]
    IN [k \in {ids[i] : i \in 1..Len(ids)} |-> handle("Part", last_index(ids, k), 0)]

instance_map(graph) ==
    LET ids == [i \in 1..Len(graph.instances) |-> graph.instances[i].id]
    IN [k \in {ids[i] : i \in 1..Len(ids)} |-> handle("Instance", last_index(ids, k), 0)]

parts_with_representation(graph) ==
    {i \in 1..Len(graph.parts) : graph.parts[i].representation # <<>>}

Max(S) == CHOOSE x \in S : \A y \in S : y <= x

repr_map(graph) ==
    LET owners(k) == {i \in parts_with_representation(graph) :
                         graph.parts[i].representation[1].id = k}
    IN [k \in {graph.parts[i].representation[1].id : i \in parts_with_representation(graph)}
           |-> handle("Representation", Max(owners(k)), 0)]

compound_rep_map(graph) ==
    LET all == UNION {{handle("CompoundRep", i, j) :
                          j \in 1..Len(graph.parts[i].representation[1].compound_reps)} :
                      i \in parts_with_representation(graph)}
        later(h, g) == h.idx > g.idx \/ (h.idx = g.idx /\ h.sub >= g.sub)
        last(k) == CHOOSE h \in all :
                      /\ deref(graph, h).id = k
                      /\ \A g \in all : deref(graph, g).id = k => later(h, g)
    IN [k \in {deref(graph, h).id : h \in all} |-> last(k)]

\* One output line: the indent level, the kind, the id and the fields
\* the f-string appends, in order.
line(indent, kind, id, fields) ==
    [indent |-> indent, kind |-> kind, id |-> id, fields |-> fields]

opt_field(name, value) == IF Truthy(value) THEN << <<name, value>> >> ELSE <<>>

part_line(indent, part) ==
    line(indent, "Part", part.id,
         opt_field("instanceRefs", part.instance_refs)
         \o opt_field("representationRefs", part.representation_refs)
         \o opt_field("nomenclature", part.nomenclature))

instance_line(indent, instance) ==
    line(indent, "Instance", instance.id,
         opt_field("partRef", instance.part_ref)
         \o opt_field("nomenclature", instance.nomenclature))

\* The Transform line of an Instance or CompoundRep, one level deeper.
transform_lines(indent, transform) ==
    IF transform = <<>> THEN <<>>
    ELSE << line(indent + 1, "Transform", transform[1].id,
                 IF transform[1].matrix # <<>>
                 THEN << <<"matrix", matrix_as_string(transform[1].matrix)>> >>
                 ELSE <<>>) >>

transform_line_raises(transform) ==
    /\ transform # <<>>
    /\ transform[1].matrix # <<>>
    /\ matrix_as_string_raises(transform[1].matrix)

representation_line(indent, rep) == line(indent, "Representation", rep.id, <<>>)

compound_rep_line(indent, cr) ==
    line(indent, "CompoundRep", cr.id,
         opt_field("location", cr.location) \o opt_field("name", cr.name))

call(obj_id, indent_level) == [obj_id |-> obj_id, indent_level |-> indent_level]

\* The children a Part's loop over child_objects recurses into.
part_child_calls(graph, part, indent_level) ==
    LET shown == SelectSeq(part.child_objects,
                           LAMBDA h : h.kind \in {"Instance", "Part", "CompoundRep"})
    IN [i \in 1..Len(shown) |-> call(deref(graph, shown[i]).id, indent_level + 1)]

NoEffect == [lines |-> <<>>, visited |-> {}, calls |-> <<>>, raises |-> FALSE]

\* Faulty variant: the Part branch forgets output_objects.add(obj_id).
part_branch_not_marked(graph, obj_id, indent_level) ==
    LET part == deref(graph, part_map(graph)[obj_id])
    IN [lines |-> <<part_line(indent_level, part)>>,
        visited |-> {},
        calls |-> (IF part.representation # <<>>
                   THEN <<call(part.representation[1].id, indent_level + 1)>>
                   ELSE <<>>)
                  \o part_child_calls(graph, part, indent_level),
        raises |-> FALSE]

part_branch(graph, obj_id, indent_level) ==
    LET part == deref(graph, part_map(graph)[obj_id])
    IN [lines |-> <<part_line(indent_level, part)>>,
        visited |-> {obj_id},
        calls |-> (IF part.representation # <<>>
                   THEN <<call(part.representation[1].id, indent_level + 1)>>
                   ELSE <<>>)
                  \o part_child_calls(graph, part, indent_level),
        raises |-> FALSE]

instance_branch(graph, obj_id, indent_level) ==
    LET instance == deref(graph, instance_map(graph)[obj_id])
    IN IF transform_line_raises(instance.transform)
       THEN [lines |-> <<instance_line(indent_level, instance)>>,
             visited |-> {obj_id}, calls |-> <<>>, raises |-> TRUE]
       ELSE [lines |-> <<instance_line(indent_level, instance)>>
                       \o transform_lines(indent_level, instance.transform),
             visited |-> {obj_id},
             calls |-> IF Truthy(instance.part_ref)
                       THEN [i \in 1..Len(split(instance.part_ref)) |->
                                call(split(instance.part_ref)[i], indent_level + 1)]
                       ELSE <<>>,
             raises |-> FALSE]

representation_branch(graph, visited, obj_id, indent_level) ==
    LET repr_obj == deref(graph, repr_map(graph)[obj_id])
    IN IF repr_obj.id \notin visited
       THEN [lines |-> <<representation_line(indent_level, repr_obj)>>,
             visited |-> {repr_obj.id},
             calls |-> [i \in 1..Len(repr_obj.compound_reps) |->
                           call(repr_obj.compound_reps[i].id, indent_level + 1)],
             raises |-> FALSE]
       ELSE NoEffect

compound_rep_branch(graph, visited, obj_id, indent_level) ==
    LET cr == deref(graph, compound_rep_map(graph)[obj_id])
    IN IF cr.id \notin visited
       THEN IF transform_line_raises(cr.transform)
            THEN [lines |-> <<compound_rep_line(indent_level, cr)>>,
                  visited |-> {cr.id}, calls |-> <<>>, raises |-> TRUE]
            ELSE [lines |-> <<compound_rep_line(indent_level, cr)>>
                            \o transform_lines(indent_level, cr.transform),
                  visited |-> {cr.id}, calls |-> <<>>, raises |-> FALSE]
       ELSE NoEffect

\* Faulty variant: the visited check is missing.
already_output_never(visited, obj_id) == FALSE

\* The visited check that opens output_object_recursive.
already_output(visited, obj_id) == obj_id \in visited

\* Faulty variant: the Instance map is asked before the Part map.
output_object_recursive_instance_first(graph, visited, obj_id, indent_level) ==
    IF already_output(visited, obj_id) THEN NoEffect
    ELSE IF obj_id \in DOMAIN instance_map(graph)
         THEN instance_branch(graph, obj_id, indent_level)
    ELSE IF obj_id \in DOMAIN part_map(graph)
         THEN part_branch(graph, obj_id, indent_level)
    ELSE IF obj_id \in DOMAIN repr_map(graph)
         THEN representation_branch(graph, visited, obj_id, indent_level)
    ELSE IF obj_id \in DOMAIN compound_rep_map(graph)
         THEN compound_rep_branch(graph, visited, obj_id, indent_level)
    ELSE NoEffect

\* One call of output_object_recursive, up to its recursive calls: the
\* lines it appends, what it adds to output_objects, and the calls it
\* makes, in order.
output_object_recursive(graph, visited, obj_id, indent_level) ==
    IF already_output(visited, obj_id) THEN NoEffect
    ELSE IF obj_id \in DOMAIN part_map(graph)
         THEN part_branch(graph, obj_id, indent_level)
    ELSE IF obj_id \in DOMAIN instance_map(graph)
         THEN instance_branch(graph, obj_id, indent_level)
    ELSE IF obj_id \in DOMAIN repr_map(graph)
         THEN representation_branch(graph, visited, obj_id, indent_level)
    ELSE IF obj_id \in DOMAIN compound_rep_map(graph)
         THEN compound_rep_branch(graph, visited, obj_id, indent_level)
    ELSE NoEffect

\* The lines before the root walk.
brief_head_lines(p) ==
    (IF p.header # <<>>
     THEN <<line(0, "Header", None, << <<"author", p.header[1].author>> >>)>>
     ELSE <<>>)
    \o (IF HasGraph(p)
        THEN <<line(0, "InstanceGraph", None, << <<"rootRefs", graph_of(p).root_refs>> >>)>>
        ELSE <<>>)

\* Faulty variant: without rootRefs every Part and Instance of the graph is
\* taken as a root.
root_calls_top_level(p) ==
    IF HasGraph(p)
    THEN IF Truthy(graph_of(p).root_refs)
         THEN [i \in 1..Len(split(graph_of(p).root_refs)) |->
                  call(split(graph_of(p).root_refs)[i], 0)]
         ELSE [i \in 1..Len(graph_of(p).parts) |-> call(graph_of(p).parts[i].id, 0)]
              \o [i \in 1..Len(graph_of(p).instances) |->
                     call(graph_of(p).instances[i].id, 0)]
    ELSE <<>>

\* root_ids, as the calls of the loop over them.
root_calls(p) ==
    IF HasGraph(p) /\ Truthy(graph_of(p).root_refs)
    THEN [i \in 1..Len(split(graph_of(p).root_refs)) |->
             call(split(graph_of(p).root_refs)[i], 0)]
    ELSE <<>>

relation_line(relation) ==
    line(0, "Relation", relation.id, opt_field("relatedRefs", relation.related_refs))

relation_lines(p) ==
    IF HasGraph(p) THEN map_seq(relation_line, graph_of(p).relations) ELSE <<>>

-----------------------------------------------------------------------------
(* The caller: parse_plmxml, then output_as_yaml or output_as_brief        *)

MaxRenders == 2

\* parse_plmxml up to `plmxml = PLMXML(root)`; an exception of a
\* constructor leaves parse_plmxml with no Document.
Build ==
    /\ pc = "start"
    /\ IF PLMXML_raises(xml)
       THEN pc' = "parse_raised" /\ plmxml' = plmxml
       ELSE pc' = "built" /\ plmxml' = <<PLMXML(xml)>>
    /\ UNCHANGED <<prior_registry, xml, id_to_object_map, yaml_outputs, brief_outputs,
                   output_lines, output_objects, stack>>

\* parse_plmxml's add_to_map calls.
PopulateRegistry ==
    /\ pc = "built"
    /\ id_to_object_map' = populate_registry(plmxml[1])
    /\ pc' = "registered"
    /\ UNCHANGED <<prior_registry, xml, plmxml, yaml_outputs, brief_outputs,
                   output_lines, output_objects, stack>>

\* parse_plmxml's three resolution loops and its return.
Resolve ==
    /\ pc = "registered"
    /\ plmxml' = <<resolve_references(id_to_object_map, plmxml[1])>>
    /\ pc' = "parsed"
    /\ UNCHANGED <<prior_registry, xml, id_to_object_map, yaml_outputs, brief_outputs,
                   output_lines, output_objects, stack>>

\* Faulty variant: rendering consumes the Parts' child_objects (each to_dict pops
\* the first entry of the list it has shown).
OutputAsYaml_consuming ==
    /\ pc = "parsed"
    /\ brief_outputs = <<>>
    /\ Len(yaml_outputs) < MaxRenders
    /\ yaml_outputs' = Append(yaml_outputs, output_as_yaml(plmxml[1]))
    /\ plmxml' =
          IF HasGraph(plmxml[1])
          THEN <<[plmxml[1] EXCEPT !.product_def[1].instance_graph[1].parts =
                    [i \in 1..Len(@) |->
                        [@[i] EXCEPT !.child_objects =
                            IF @ = <<>> THEN @ ELSE Tail(@)]]]>>
          ELSE plmxml
    /\ UNCHANGED <<prior_registry, xml, pc, id_to_object_map, brief_outputs,
                   output_lines, output_objects, stack>>

\* One call of output_as_yaml on the parsed Document.
OutputAsYaml ==
    /\ pc = "parsed"
    /\ brief_outputs = <<>>
    /\ Len(yaml_outputs) < MaxRenders
    /\ yaml_outputs' = Append(yaml_outputs, output_as_yaml(plmxml[1]))
    /\ UNCHANGED <<prior_registry, xml, pc, plmxml, id_to_object_map, brief_outputs,
                   output_lines, output_objects, stack>>

\* output_as_brief up to the loop over root_ids.
BriefBegin ==
    /\ pc = "parsed"
    /\ yaml_outputs = <<>>
    /\ Len(brief_outputs) < MaxRenders
    /\ output_lines' = brief_head_lines(plmxml[1])
    /\ output_objects' = {}
    /\ stack' = root_calls(plmxml[1])
    /\ pc' = "brief"
    /\ UNCHANGED <<prior_registry, xml, plmxml, id_to_object_map, yaml_outputs, brief_outputs>>

\* The next call of output_object_recursive.  Its recursive calls are
\* made in order and nothing follows them in the caller, so the pending
\* calls form a stack.
BriefStep ==
    /\ pc = "brief"
    /\ stack # <<>>
    /\ LET effect == output_object_recursive(graph_of(plmxml[1]), output_objects,
                                             Head(stack).obj_id, Head(stack).indent_level)
       IN /\ output_lines' = output_lines \o effect.lines
          /\ output_objects' = output_objects \cup effect.visited
          /\ IF effect.raises
             THEN pc' = "brief_raised" /\ stack' = <<>>
             ELSE pc' = pc /\ stack' = effect.calls \o Tail(stack)
    /\ UNCHANGED <<prior_registry, xml, plmxml, id_to_object_map, yaml_outputs, brief_outputs>>

\* Faulty variant: the Relation lines are put before the lines of the walk.
BriefEnd_relations_first ==
    /\ pc = "brief"
    /\ stack = <<>>
    /\ brief_outputs' = Append(brief_outputs, relation_lines(plmxml[1]) \o output_lines)
    /\ output_lines' = <<>>
    /\ output_objects' = {}
    /\ pc' = "parsed"
    /\ UNCHANGED <<prior_registry, xml, plmxml, id_to_object_map, yaml_outputs, stack>>

\* The Relation lines and the return of output_as_brief; its locals die.
BriefEnd ==
    /\ pc = "brief"
    /\ stack = <<>>
    /\ brief_outputs' = Append(brief_outputs, output_lines \o relation_lines(plmxml[1]))
    /\ output_lines' = <<>>
    /\ output_objects' = {}
    /\ pc' = "parsed"
    /\ UNCHANGED <<prior_registry, xml, plmxml, id_to_object_map, yaml_outputs, stack>>

Next ==
    \/ Build
    \/ PopulateRegistry
    \/ Resolve
    \/ OutputAsYaml
    \/ BriefBegin
    \/ BriefStep
    \/ BriefEnd

-----------------------------------------------------------------------------
(* Documents                                                               *)

MaxElems == 3

A == <<"a">>
B == <<"b">>
C == <<"c">>

element(tag, attrs, children, text) ==
    [tag |-> tag, attrs |-> attrs, children |-> children, text |-> text]

\* An attribute, absent when its value is None.
attr(name, value) == IF value = None THEN EmptyDict ELSE name :> value

IdentityText ==
    join(<<" ">>, [k \in 1..MatrixCells |->
                      IF cell_row(k - 1) = cell_col(k - 1) THEN <<"1">> ELSE <<"0">>])

TransformEl(id, text) == element(TransformTag, attr("id", id), <<>>, text)

InstanceEl(id, part_ref, children) ==
    element(InstanceTag, attr("id", id) @@ attr("partRef", part_ref), children, None)

CompoundRepEl(id, children) == element(CompoundRepTag, attr("id", id), children, None)

RepresentationEl(id, children) ==
    element(RepresentationTag, attr("id", id), children, None)

PartEl(id, instance_refs, children) ==
    element(PartTag, attr("id", id) @@ attr("instanceRefs", instance_refs), children, None)

RelationEl(id, related_refs) ==
    element(RelationTag, attr("id", id) @@ attr("relatedRefs", related_refs), <<>>, None)

GeneralObjectEl(id) == element(GeneralObjectTag, attr("id", id), <<>>, None)

\* The children an InstanceGraph of the model is made of.
InstanceElems ==
    { InstanceEl(B, A, <<>>),
      InstanceEl(B, <<"c", " ", "a", " ", "b">>, <<TransformEl(C, IdentityText)>>),
      InstanceEl(A, None, <<>>),
      InstanceEl(None, A, <<>>) }

PartElems ==
    { PartEl(A, B, <<>>),
      PartEl(A, <<" ", "b", " ", " ", "a">>,
             <<RepresentationEl(C, <<CompoundRepEl(B, <<>>)>>)>>),
      PartEl(C, None, <<RepresentationEl(None, <<CompoundRepEl(C, <<>>)>>)>>) }

RelationElems == { RelationEl(C, <<"a", " ", "b">>) }

GeneralObjectElems == { GeneralObjectEl(B) }

GraphElems == InstanceElems \cup PartElems \cup RelationElems \cup GeneralObjectElems

RootRefs == { None, A, <<"b", " ", "a">> }

SeqsUpTo(S, n) == UNION {[1..k -> S] : k \in 0..n}

InstanceGraphEl(root_refs, children) ==
    element(InstanceGraphTag, attr("rootRefs", root_refs), children, None)

ProductDefEl(children) == element(ProductDefTag, EmptyDict, children, None)

HeaderEl == element(HeaderTag, attr("author", <<"author">>), <<>>, None)

PLMXMLEl(schema_version, children) ==
    element(PLMXMLTag, attr("schemaVersion", schema_version), children, None)

GraphDocuments ==
    { PLMXMLEl(<<"1">>, <<ProductDefEl(<<InstanceGraphEl(r, cs)>>)>>) :
        r \in RootRefs, cs \in SeqsUpTo(GraphElems, MaxElems) }

\* Documents with no InstanceGraph, no ProductDef, or no schemaVersion.
BareDocuments ==
    { PLMXMLEl(<<"1">>, <<HeaderEl, ProductDefEl(<<>>)>>),
      PLMXMLEl(<<"1">>, <<HeaderEl>>),
      PLMXMLEl(None, <<HeaderEl>>) }

Documents == GraphDocuments \cup BareDocuments

InitOn(docs) ==
    /\ xml \in docs
    /\ pc = "start"
    /\ plmxml = <<>>
    /\ id_to_object_map = EmptyMap
    /\ yaml_outputs = <<>>
    /\ brief_outputs = <<>>
    /\ output_lines = <<>>
    /\ output_objects = {}
    /\ stack = <<>>
    /\ prior_registry = EmptyMap

Init == InitOn(Documents)

Spec == Init /\ [][Next]_vars

\* Documents whose Transform text has n tokens, of which token number bad
\* (if any) is no number; the Transform sits in an Instance or a CompoundRep.
MaxTokens == 17

D == <<"d">>

TransformText(n, bad) ==
    join(<<" ">>, [k \in 1..n |->
                      IF k = bad THEN <<"x">>
                      ELSE IF cell_row(k - 1) = cell_col(k - 1) THEN <<"1">> ELSE <<"0">>])

TransformDocument(place, text) ==
    PLMXMLEl(<<"1">>, <<ProductDefEl(<<InstanceGraphEl(A, <<
        InstanceEl(A, B, IF place = "Instance"
                         THEN <<TransformEl(C, text)>> ELSE <<>>),
        PartEl(B, A, <<RepresentationEl(C, <<
            CompoundRepEl(D, IF place = "CompoundRep"
                             THEN <<TransformEl(None, text)>> ELSE <<>>)>>)>>)>>)>>)>>)

TransformDocuments ==
    UNION { { TransformDocument(place, TransformText(n, bad)) :
                bad \in 0..n, place \in {"Instance", "CompoundRep"} } :
            n \in 0..MaxTokens }

SpecTransform == InitOn(TransformDocuments) /\ [][Next]_vars

\* Documents with one Instance whose quantity attribute is absent or a short
\* string of digits, blanks and a letter.
MaxQuantityLen == 2

QuantityChars == Digits \cup {" ", "x"}

QuantityTexts == {None} \cup SeqsUpTo(QuantityChars, MaxQuantityLen)

InstanceWithQuantityEl(id, part_ref, quantity) ==
    element(InstanceTag,
            attr("id", id) @@ attr("partRef", part_ref) @@ attr("quantity", quantity),
            <<>>, None)

InstanceDocuments ==
    { PLMXMLEl(<<"1">>, <<ProductDefEl(<<InstanceGraphEl(A, <<
          InstanceWithQuantityEl(A, B, q), PartEl(B, A, <<>>)>>)>>)>>) :
      q \in QuantityTexts }

SpecInstance == InitOn(InstanceDocuments) /\ [][Next]_vars

\* Documents with a Part or an Instance that owns UserData blocks of at most
\* two UserValues each.
MaxBlocks == 2

X == <<"X">>
Y == <<"Y">>
OtherTitle == <<"Other">>

UserValueEl(title, value) ==
    element(UserValueTag, attr("title", title) @@ attr("value", value), <<>>, None)

UserDataEl(children) == element(UserDataTag, EmptyDict, children, None)

UserValueElems ==
    { UserValueEl(NomenclatureTitle, None), UserValueEl(NomenclatureTitle, X),
      UserValueEl(NomenclatureTitle, Y), UserValueEl(OtherTitle, X) }

UserDataElems ==
    {UserDataEl(<<>>)}
    \cup {UserDataEl(<<u>>) : u \in UserValueElems}
    \cup {UserDataEl(<<u, v>>) : u, v \in UserValueElems}

NomenclatureDocuments ==
    { PLMXMLEl(<<"1">>, <<ProductDefEl(<<InstanceGraphEl(A, <<
          InstanceEl(A, B, IF owner = "Instance" THEN blocks ELSE <<>>),
          PartEl(B, A, IF owner = "Part" THEN blocks ELSE <<>>)>>)>>)>>) :
      owner \in {"Part", "Instance"}, blocks \in SeqsUpTo(UserDataElems, MaxBlocks) }

SpecNomenclature == InitOn(NomenclatureDocuments) /\ [][Next]_vars

\* Documents for the brief view: identifiers shared between the lookup
\* maps, Representations without an identifier, a partRef with tokens that
\* name no Part, and a rootRefs attribute that is absent, empty or given.
BriefElems ==
    { InstanceEl(B, A, <<>>),
      InstanceEl(B, <<"c", " ", "a", " ", "b">>, <<TransformEl(C, IdentityText)>>),
      InstanceEl(A, None, <<>>),
      PartEl(A, <<" ", "b", " ", " ", "a">>,
             <<RepresentationEl(C, <<CompoundRepEl(B, <<>>)>>)>>),
      PartEl(C, None, <<RepresentationEl(None, <<CompoundRepEl(C, <<>>)>>)>>),
      PartEl(B, None, <<RepresentationEl(None, <<CompoundRepEl(D, <<>>)>>)>>),
      RelationEl(C, <<"a", " ", "b">>) }

BriefRootRefs == { None, <<>>, <<"b", " ", "a">> }

BriefDocuments ==
    { PLMXMLEl(<<"1">>, <<ProductDefEl(<<InstanceGraphEl(r, cs)>>)>>) :
        r \in BriefRootRefs, cs \in SeqsUpTo(BriefElems, MaxElems) }

SpecBrief == InitOn(BriefDocuments) /\ [][Next]_vars

\* Documents for two parse_plmxml calls in a row: their records carry
\* different identifiers, and rootRefs leads the brief view to them.
ReparseElems ==
    { InstanceEl(A, B, <<>>),
      PartEl(B, None, <<RepresentationEl(C, <<CompoundRepEl(D, <<>>)>>)>>),
      RelationEl(C, <<"a", " ", "b">>) }

ReparseDocuments ==
    { PLMXMLEl(<<"1">>, <<ProductDefEl(<<InstanceGraphEl(<<"a", " ", "b">>, cs)>>)>>) :
        cs \in SeqsUpTo(ReparseElems, MaxElems) }

\* The caller hands another document to parse_plmxml after the call before
\* has returned: a new call, none of whose locals is bound yet.  What the
\* caller rendered from the earlier Document is not kept.
ParseAgain ==
    /\ pc = "parsed"
    /\ xml' \in ReparseDocuments
    /\ pc' = "start"
    /\ plmxml' = <<>>
    /\ prior_registry' = id_to_object_map
    /\ id_to_object_map' = EmptyMap
    /\ yaml_outputs' = <<>>
    /\ brief_outputs' = <<>>
    /\ UNCHANGED <<output_lines, output_objects, stack>>

NextReparse ==
    \/ Build
    \/ PopulateRegistry
    \/ Resolve
    \/ OutputAsYaml
    \/ BriefBegin
    \/ BriefStep
    \/ BriefEnd
    \/ ParseAgain

SpecReparse == InitOn(ReparseDocuments) /\ [][NextReparse]_vars

\* Documents whose InstanceGraph holds children of other tags next to the
\* four it reads: 'ProductInstance', 'SubPart', 'Other', and a Part with a
\* 'SubRepresentation' child.
ProductInstanceTag == <<"Product", "Instance">>
SubPartTag == <<"Sub", "Part">>
SubRepresentationTag == <<"Sub", "Representation">>
OtherTag == <<"Other">>

TagElems ==
    { InstanceEl(A, B, <<>>),
      PartEl(B, A, <<>>),
      element(ProductInstanceTag, attr("id", C) @@ attr("partRef", B), <<>>, None),
      element(SubPartTag, attr("id", D), <<>>, None),
      element(OtherTag, attr("id", A), <<>>, None),
      PartEl(B, None, <<element(SubRepresentationTag, attr("id", C),
                                <<CompoundRepEl(D, <<>>)>>, None)>>),
      RelationEl(C, <<"a", " ", "b">>),
      GeneralObjectEl(D) }

TagDocuments ==
    { PLMXMLEl(<<"1">>, <<ProductDefEl(<<
          InstanceGraphEl(<<"a", " ", "b", " ", "c", " ", "d">>, cs)>>)>>) :
      cs \in SeqsUpTo(TagElems, MaxElems) }

SpecTags == InitOn(TagDocuments) /\ [][Next]_vars

-----------------------------------------------------------------------------
(* Properties                                                              *)

HasDocument == plmxml # <<>>
HasG == HasDocument /\ HasGraph(plmxml[1])
G == graph_of(plmxml[1])
AfterResolve == pc \in {"parsed", "brief", "brief_raised"}

WalkKinds == {"Part", "Instance", "Representation", "CompoundRep"}

\* The lines of the given kinds that carry the given id.
lines_with(lines, kinds, id) ==
    {i \in 1..Len(lines) : lines[i].kind \in kinds /\ lines[i].id = id}

root_ids == {root_calls(plmxml[1])[k].obj_id : k \in 1..Len(root_calls(plmxml[1]))}

\* Part x lists Instance y in its resolved instanceRefs, and Instance y's
\* partRef names x.
CyclePairs ==
    {xy \in (DOMAIN part_map(G)) \X (DOMAIN instance_map(G)) :
        LET part == deref(G, part_map(G)[xy[1]])
            instance == deref(G, instance_map(G)[xy[2]])
        IN /\ \E i \in 1..Len(part.child_objects) :
                 part.child_objects[i] = instance_map(G)[xy[2]]
           /\ Truthy(instance.part_ref)
           /\ \E j \in 1..Len(split(instance.part_ref)) : split(instance.part_ref)[j] = xy[1]}

RootedCyclePairs == {xy \in CyclePairs : xy[1] \in root_ids \/ xy[2] \in root_ids}

\* What a walk may still print, and the most calls one call can make.
walk_keys(graph) ==
    DOMAIN part_map(graph) \cup DOMAIN instance_map(graph)
    \cup DOMAIN repr_map(graph) \cup DOMAIN compound_rep_map(graph)

max_calls(graph) ==
    Max({0}
        \cup {1 + Len(graph.parts[i].child_objects) : i \in 1..Len(graph.parts)}
        \cup {Len(graph.parts[i].representation[1].compound_reps) :
                 i \in parts_with_representation(graph)}
        \cup {IF Truthy(graph.instances[i].part_ref)
              THEN Len(split(graph.instances[i].part_ref)) ELSE 0 :
                 i \in 1..Len(graph.instances)})

\* A natural number that every call of output_object_recursive lowers.
BriefMeasure ==
    Cardinality(walk_keys(G) \ output_objects) * (max_calls(G) + 1) + Len(stack)

C1_CycleLinesOnce ==
    HasG =>
        \A n \in 1..Len(brief_outputs) : \A xy \in RootedCyclePairs :
            /\ Cardinality(lines_with(brief_outputs[n], WalkKinds, xy[1])) = 1
            /\ Cardinality(lines_with(brief_outputs[n], {"Part"}, xy[1])) = 1
            /\ Cardinality(lines_with(brief_outputs[n], WalkKinds, xy[2])) = 1
            /\ Cardinality(lines_with(brief_outputs[n], {"Instance"}, xy[2])) = 1

\* C1: the walk of output_as_brief terminates on every resolved document:
\* each call of output_object_recursive lowers a natural-number measure, so
\* the pending calls run out; and in every returned brief view, a Part A and
\* an Instance B that form a reference cycle reachable from rootRefs have
\* exactly one line each.
C1_BriefTerminates ==
    /\ [][pc = "brief" /\ pc' = "brief" => BriefMeasure' < BriefMeasure]_vars
    /\ [](pc = "brief" /\ stack # <<>> => HasG /\ BriefMeasure > 0)
    /\ []C1_CycleLinesOnce

\* A brief view of a document with a rooted Part/Instance cycle was returned.
C1_Witness ==
    /\ pc = "parsed"
    /\ brief_outputs # <<>>
    /\ HasG
    /\ RootedCyclePairs # {}

C2_WalkLinesUnique(lines) ==
    \A i, j \in 1..Len(lines) :
        (lines[i].kind \in WalkKinds /\ lines[j].kind \in WalkKinds
         /\ lines[i].id = lines[j].id) => i = j

\* C2 as stated: in a brief view no identifier is the id of two lines.
C2_Original ==
    \A n \in 1..Len(brief_outputs) : \A i, j \in 1..Len(brief_outputs[n]) :
        (Truthy(brief_outputs[n][i].id) /\ brief_outputs[n][i].id = brief_outputs[n][j].id)
            => i = j

\* C2 (amended): no identifier is the id of two Part, Instance,
\* Representation or CompoundRep lines of a brief view, the visited set is
\* the set of ids of those lines, and a call on an already-visited
\* identifier returns without printing or recursing.  (Transform lines and
\* the trailing Relation lines are printed without the visited check.)
C2_NoIdentifierTwice ==
    /\ [](\A n \in 1..Len(brief_outputs) : C2_WalkLinesUnique(brief_outputs[n]))
    /\ [](pc = "brief" =>
            /\ C2_WalkLinesUnique(output_lines)
            /\ output_objects =
                  {output_lines[i].id :
                      i \in {k \in 1..Len(output_lines) : output_lines[k].kind \in WalkKinds}})
    /\ [][(pc = "brief" /\ stack # <<>> /\ Head(stack).obj_id \in output_objects)
            => (/\ output_lines' = output_lines
                /\ output_objects' = output_objects
                /\ stack' = Tail(stack))]_vars

\* A record reachable along two paths (a root that is also the partRef
\* target of a printed Instance) in a returned brief view, and a call on a
\* visited identifier pending.
C2_Witness ==
    /\ pc = "brief"
    /\ stack # <<>>
    /\ Head(stack).obj_id \in output_objects
    /\ Head(stack).obj_id \in root_ids
    /\ Head(stack).indent_level > 0
    /\ \E i \in 1..Len(output_lines) :
          output_lines[i].kind = "Instance" /\ output_lines[i].indent = 0

-----------------------------------------------------------------------------
(* Resolution: C3, C4, C5                                                  *)

\* The whitespace-separated tokens of a raw attribute, stated by position:
\* a token starts at a non-blank that is first or follows a blank, and runs
\* to the last non-blank before the next blank.
token_starts(s) ==
    {i \in 1..Len(s) : s[i] \notin Whitespace /\ (i = 1 \/ s[i - 1] \in Whitespace)}

token_end(s, i) ==
    CHOOSE j \in i..Len(s) :
        /\ \A k \in i..j : s[k] \notin Whitespace
        /\ (j = Len(s) \/ s[j + 1] \in Whitespace)

kth(S, k) == CHOOSE x \in S : Cardinality({y \in S : y < x}) = k - 1

tokens_of(s) ==
    IF Truthy(s)
    THEN LET starts == token_starts(s)
         IN [k \in 1..Cardinality(starts) |->
                LET start == kth(starts, k) IN SubSeq(s, start, token_end(s, start))]
    ELSE <<>>

\* The registry records of the tokens that are registered, in token order.
RECURSIVE registered_records(_, _)
registered_records(map, tokens) ==
    IF tokens = <<>> THEN <<>>
    ELSE (IF Head(tokens) \in DOMAIN map THEN <<map[Head(tokens)]>> ELSE <<>>)
         \o registered_records(map, Tail(tokens))

resolved_as_registered(raw, resolved) ==
    /\ resolved = registered_records(id_to_object_map, tokens_of(raw))
    /\ \A k \in 1..Len(resolved) : id_to_object_map[deref(G, resolved[k]).id] = resolved[k]

\* C3: after resolution, child_objects, part_references and related_objects
\* are exactly the registry records of the whitespace-separated tokens of
\* instanceRefs, partRef and relatedRefs that are registered identifiers, in
\* token order; unregistered tokens are dropped.
C3_ResolvedInTokenOrder ==
    (AfterResolve /\ HasG) =>
        /\ \A i \in 1..Len(G.parts) :
              resolved_as_registered(G.parts[i].instance_refs, G.parts[i].child_objects)
        /\ \A i \in 1..Len(G.instances) :
              resolved_as_registered(G.instances[i].part_ref, G.instances[i].part_references)
        /\ \A i \in 1..Len(G.relations) :
              resolved_as_registered(G.relations[i].related_refs,
                                     G.relations[i].related_objects)

\* A reference string of three tokens, the first unregistered, resolved to
\* the two records of the other tokens, which are different records.
C3_Witness ==
    /\ AfterResolve
    /\ HasG
    /\ \E i \in 1..Len(G.instances) :
          /\ Len(tokens_of(G.instances[i].part_ref)) = 3
          /\ tokens_of(G.instances[i].part_ref)[1] \notin DOMAIN id_to_object_map
          /\ Len(G.instances[i].part_references) = 2
          /\ G.instances[i].part_references[1] # G.instances[i].part_references[2]

\* The InstanceGraph element the build pass reads.
graph_element ==
    last_child(last_child(xml, ProductDefTag)[1], InstanceGraphTag)[1]

\* The handles of the records add_to_map is called on.
registrable(graph) ==
    {instance_handles(graph)[i] : i \in 1..Len(graph.instances)}
    \cup {part_handles(graph)[i] : i \in 1..Len(graph.parts)}
    \cup {general_object_handles(graph)[i] : i \in 1..Len(graph.general_objects)}
    \cup {relation_handles(graph)[i] : i \in 1..Len(graph.relations)}
    \cup UNION {{compound_rep_handles(graph, i)[j] :
                    j \in 1..Len(graph.parts[i].representation[1].compound_reps)} :
                i \in parts_with_representation(graph)}

declared_ids(graph) ==
    {deref(graph, h).id : h \in {g \in registrable(graph) : Truthy(deref(graph, g).id)}}

AllBuilt ==
    /\ Len(G.instances) = Len(children_with(graph_element, InstanceTag))
    /\ Len(G.parts) = Len(children_with(graph_element, PartTag))
    /\ Len(G.general_objects) = Len(children_with(graph_element, GeneralObjectTag))
    /\ Len(G.relations) = Len(children_with(graph_element, RelationTag))

RefFieldsEmpty ==
    /\ \A i \in 1..Len(G.instances) : G.instances[i].part_references = <<>>
    /\ \A i \in 1..Len(G.parts) : G.parts[i].child_objects = <<>>
    /\ \A i \in 1..Len(G.relations) : G.relations[i].related_objects = <<>>

RegistryComplete == declared_ids(G) \subseteq DOMAIN id_to_object_map

\* Every token that some registrable record declares is resolved, and
\* nothing else is.
declared_tokens_resolved(raw, resolved) ==
    LET ids == declared_ids(G)
        declared == SelectSeq(tokens_of(raw), LAMBDA t : t \in ids)
    IN /\ Len(resolved) = Len(declared)
       /\ \A k \in 1..Len(declared) : deref(G, resolved[k]).id = declared[k]

\* C4: the phases are ordered.  Until the resolution pass no reference
\* field holds anything, although every record is built; the registry is
\* empty until it is populated and then holds every declared identifier;
\* and after resolution every token whose identifier is declared anywhere
\* in the document is resolved, wherever the declaration stands.
C4_PhasesOrdered ==
    /\ pc = "start" => (plmxml = <<>> /\ id_to_object_map = EmptyMap)
    /\ pc = "built" => id_to_object_map = EmptyMap
    /\ (pc \in {"built", "registered"} /\ HasG) => (AllBuilt /\ RefFieldsEmpty)
    /\ (pc = "registered" /\ HasG) => RegistryComplete
    /\ (AfterResolve /\ HasG) =>
          /\ \A i \in 1..Len(G.parts) :
                declared_tokens_resolved(G.parts[i].instance_refs, G.parts[i].child_objects)
          /\ \A i \in 1..Len(G.instances) :
                declared_tokens_resolved(G.instances[i].part_ref,
                                         G.instances[i].part_references)
          /\ \A i \in 1..Len(G.relations) :
                declared_tokens_resolved(G.relations[i].related_refs,
                                         G.relations[i].related_objects)

\* The place in the document of the record behind a handle: the position
\* of its element among the InstanceGraph's children and, for a
\* CompoundRep, its position inside the Part.
position_of(suffix, n) ==
    LET children == graph_element.children
        matching == SelectSeq([i \in 1..Len(children) |-> i],
                              LAMBDA i : endswith(children[i].tag, suffix))
    IN matching[n]

doc_position(h) ==
    CASE h.kind = "Instance" -> <<position_of(InstanceTag, h.idx), 0>>
      [] h.kind = "Part" -> <<position_of(PartTag, h.idx), 0>>
      [] h.kind = "GeneralObject" -> <<position_of(GeneralObjectTag, h.idx), 0>>
      [] h.kind = "Relation" -> <<position_of(RelationTag, h.idx), 0>>
      [] h.kind = "CompoundRep" -> <<position_of(PartTag, h.idx), h.sub>>

declared_later(h, g) ==
    LET at_h == doc_position(h)
        at_g == doc_position(g)
    IN \/ at_h[1] > at_g[1]
       \/ (at_h[1] = at_g[1] /\ at_h[2] > at_g[2])

\* An Instance whose partRef names a Part that is declared after it, and
\* the Part is among its part_references.
C4_Witness ==
    /\ AfterResolve
    /\ HasG
    /\ \E i \in 1..Len(G.instances) : \E k \in 1..Len(G.instances[i].part_references) :
          /\ G.instances[i].part_references[k].kind = "Part"
          /\ declared_later(G.instances[i].part_references[k], handle("Instance", i, 0))

AfterPopulate == pc \in {"registered", "parsed", "brief", "brief_raised"}

\* C5 as stated: of two registrable records with one identifier, lookup
\* returns the one declared later in the document, never the earlier one.
C5_Original ==
    (AfterPopulate /\ HasG) =>
        \A h, g \in registrable(G) :
            (/\ Truthy(deref(G, h).id)
             /\ deref(G, h).id = deref(G, g).id
             /\ declared_later(h, g))
                => id_to_object_map[deref(G, g).id] # g

\* The order in which parse_plmxml writes the registry: the Instances, the
\* Parts, the GeneralObjects, the Relations, each list in document order,
\* then the CompoundReps Part by Part.
kind_rank(kind) ==
    CASE kind = "Instance" -> 1
      [] kind = "Part" -> 2
      [] kind = "GeneralObject" -> 3
      [] kind = "Relation" -> 4
      [] kind = "CompoundRep" -> 5

written_later(h, g) ==
    \/ kind_rank(h.kind) > kind_rank(g.kind)
    \/ (h.kind = g.kind /\ h.idx > g.idx)
    \/ (h.kind = g.kind /\ h.idx = g.idx /\ h.sub > g.sub)

\* C5 (amended): the registry keeps, for each identifier, the record written
\* last in the population order Instances, Parts, GeneralObjects, Relations
\* (each in document order), CompoundReps: of two records of one kind the
\* later declaration wins; of two records of different kinds the later kind
\* wins, wherever the two stand in the document.
C5_LastWriteWins ==
    (AfterPopulate /\ HasG) =>
        LET records == registrable(G)
        IN /\ DOMAIN id_to_object_map = declared_ids(G)
           /\ \A g \in records :
                 LET id == deref(G, g).id
                 IN Truthy(id) =>
                       \A h \in records :
                           (/\ deref(G, h).id = id
                            /\ \/ written_later(h, g)
                               \/ (h.kind = g.kind /\ declared_later(h, g)))
                              => id_to_object_map[id] # g

\* Two Parts with one identifier, and an Instance with that identifier
\* declared after the record the registry holds for it.
C5_Witness ==
    /\ AfterPopulate
    /\ HasG
    /\ \E h, g \in registrable(G) :
          /\ h.kind = "Part" /\ g.kind = "Part" /\ h # g
          /\ Truthy(deref(G, h).id)
          /\ deref(G, h).id = deref(G, g).id
          /\ deref(G, h) # deref(G, g)
          /\ \E i \in registrable(G) :
                /\ i.kind = "Instance"
                /\ deref(G, i).id = deref(G, h).id
                /\ declared_later(i, id_to_object_map[deref(G, h).id])

-----------------------------------------------------------------------------
(* The structural dump: C9, C10                                            *)

\* A reference field of a dumped record: present exactly when the resolved
\* list is not empty, and then the list of the referenced records' ids.
dumped_as_ids(dict, key, resolved) ==
    /\ (key \in DOMAIN dict) <=> (resolved # <<>>)
    /\ (key \in DOMAIN dict) =>
          /\ Len(dict[key]) = Len(resolved)
          /\ \A k \in 1..Len(resolved) :
                /\ dict[key][k] = deref(G, resolved[k]).id
                /\ dict[key][k] \in declared_ids(G)

\* An owned Representation is dumped inside its Part, with its CompoundReps
\* inside it.
dumped_inline(dict, part) ==
    /\ ("representation" \in DOMAIN dict) <=> (part.representation # <<>>)
    /\ ("representation" \in DOMAIN dict) =>
          /\ dict["representation"].id = part.representation[1].id
          /\ Len(dict["representation"].compound_reps)
                = Len(part.representation[1].compound_reps)
          /\ \A j \in 1..Len(part.representation[1].compound_reps) :
                /\ dict["representation"].compound_reps[j].id
                      = part.representation[1].compound_reps[j].id
                /\ "location" \in DOMAIN dict["representation"].compound_reps[j]

dumped_graph(dump) == dump["product_def"]["instance_graph"]

\* C9: in every structural dump, owned children are inline and each
\* reference field (child_objects, part_references, related_objects) is the
\* ordered list of the referenced records' identifiers, nothing else; the
\* dump follows composition only, so a reference cycle does not enter it.
C9_ReferencesAsIds ==
    HasG =>
        \A n \in 1..Len(yaml_outputs) :
            /\ Len(dumped_graph(yaml_outputs[n]).parts) = Len(G.parts)
            /\ Len(dumped_graph(yaml_outputs[n]).instances) = Len(G.instances)
            /\ Len(dumped_graph(yaml_outputs[n]).relations) = Len(G.relations)
            /\ \A i \in 1..Len(G.parts) :
                  /\ dumped_as_ids(dumped_graph(yaml_outputs[n]).parts[i],
                                   "child_objects", G.parts[i].child_objects)
                  /\ dumped_inline(dumped_graph(yaml_outputs[n]).parts[i], G.parts[i])
            /\ \A i \in 1..Len(G.instances) :
                  dumped_as_ids(dumped_graph(yaml_outputs[n]).instances[i],
                                "part_references", G.instances[i].part_references)
            /\ \A i \in 1..Len(G.relations) :
                  dumped_as_ids(dumped_graph(yaml_outputs[n]).relations[i],
                                "related_objects", G.relations[i].related_objects)

\* A dump of a document with a Part/Instance reference cycle and an owned
\* Representation that holds a CompoundRep.
C9_Witness ==
    /\ HasG
    /\ yaml_outputs # <<>>
    /\ CyclePairs # {}
    /\ \E i \in parts_with_representation(G) :
          G.parts[i].representation[1].compound_reps # <<>>

-----------------------------------------------------------------------------
(* The build pass on single elements: C6, C7, C8                           *)

HasGraphElement ==
    /\ children_with(xml, ProductDefTag) # <<>>
    /\ children_with(last_child(xml, ProductDefTag)[1], InstanceGraphTag) # <<>>

instance_element(i) == children_with(graph_element, InstanceTag)[i]
part_element(i) == children_with(graph_element, PartTag)[i]

elements_of(s) == {s[k] : k \in 1..Len(s)}

compound_rep_elements ==
    UNION {elements_of(children_with(r, CompoundRepTag)) :
           r \in UNION {elements_of(children_with(p, RepresentationTag)) :
                        p \in elements_of(children_with(graph_element, PartTag))}}

\* The Transform elements the build pass constructs a Transform from.
transform_elements ==
    UNION {elements_of(children_with(e, TransformTag)) :
           e \in elements_of(children_with(graph_element, InstanceTag))
                 \cup compound_rep_elements}

numeric_token_count(text) ==
    Cardinality({k \in 1..Len(tokens_of(text)) : ~float_raises(tokens_of(text)[k])})

malformed_transform(t) ==
    \/ numeric_token_count(text_or_empty(t)) < MatrixCells
    \/ numeric_token_count(text_or_empty(t)) < Len(tokens_of(text_or_empty(t)))

\* C6: a Transform whose text holds fewer than 16 numeric tokens, or a
\* token that is no number, makes the parse raise, and no Document is held.
C6_Original ==
    (HasGraphElement /\ \E t \in transform_elements : malformed_transform(t)) =>
        (pc \in {"start", "parse_raised"} /\ plmxml = <<>>)

\* int() of a digit string, read left to right.
RECURSIVE decimal_value(_, _)
decimal_value(s, acc) ==
    IF s = <<>> THEN acc ELSE decimal_value(Tail(s), 10 * acc + DigitVal[Head(s)])

trimmed(s) ==
    SubSeq(s, kth(token_starts(s), 1),
           token_end(s, kth(token_starts(s), Cardinality(token_starts(s)))))

\* C7: an Instance's quantity is 1 when the quantity attribute is absent or
\* empty, and the integer the attribute spells when it is present and not
\* empty; quantity="0" gives 0, not the default.
C7_QuantityDefault ==
    (HasG /\ HasGraphElement) =>
        /\ Len(G.instances) = Len(children_with(graph_element, InstanceTag))
        /\ \A i \in 1..Len(G.instances) :
              LET q == get(instance_element(i), "quantity")
              IN /\ (q = None \/ q = <<>>) => G.instances[i].quantity = 1
                 /\ (q # None /\ q # <<>>) =>
                       G.instances[i].quantity = decimal_value(trimmed(q), 0)
                 /\ q = <<"0">> => G.instances[i].quantity = 0

\* An Instance built from quantity="0" that holds quantity 0.
C7_Witness ==
    /\ HasG
    /\ HasGraphElement
    /\ \E i \in 1..Len(G.instances) :
          /\ get(instance_element(i), "quantity") = <<"0">>
          /\ G.instances[i].quantity = 0

\* The UserValue elements of an owner, block by block, in document order.
user_value_elements(owner) ==
    flatten([b \in 1..Len(children_with(owner, UserDataTag)) |->
                children_with(children_with(owner, UserDataTag)[b], UserValueTag)])

\* The value of the first UserValue titled 'Nomenclature', None without one.
first_match_value(owner) ==
    LET uvs == user_value_elements(owner)
        matches == {k \in 1..Len(uvs) : get(uvs[k], "title") = NomenclatureTitle}
    IN IF matches = {} THEN None ELSE get(uvs[kth(matches, 1)], "value")

\* C8: the nomenclature of every Part and Instance is the value of the
\* first UserValue titled 'Nomenclature' in block order then value order;
\* no later match determines it, and it is unset without a match.
C8_Original ==
    (HasG /\ HasGraphElement) =>
        /\ \A i \in 1..Len(G.parts) :
              G.parts[i].nomenclature = first_match_value(part_element(i))
        /\ \A i \in 1..Len(G.instances) :
              G.instances[i].nomenclature = first_match_value(instance_element(i))

-----------------------------------------------------------------------------
(* The brief view: C11, C12                                                *)

\* The last lines are the Relations' lines, one each, in collection order
\* and unindented, and no line before them is a Relation line.
relations_trail(lines, relations) ==
    LET walked == Len(lines) - Len(relations)
    IN /\ walked >= 0
       /\ \A k \in 1..walked : lines[k].kind # "Relation"
       /\ \A i \in 1..Len(relations) :
             /\ lines[walked + i].kind = "Relation"
             /\ lines[walked + i].indent = 0
             /\ lines[walked + i].id = relations[i].id
             /\ lines[walked + i].fields =
                   (IF relations[i].related_refs \in {None, <<>>}
                    THEN <<>>
                    ELSE << <<"relatedRefs", relations[i].related_refs>> >>)

\* C11: in every brief view the Relations form a flat trailing list: each
\* Relation of the InstanceGraph has exactly one unindented line, in
\* collection order, after every line of the root walk; the walk itself
\* prints no Relation line.
C11_RelationsTrail ==
    HasG =>
        /\ \A n \in 1..Len(brief_outputs) : relations_trail(brief_outputs[n], G.relations)
        /\ \A k \in 1..Len(output_lines) : output_lines[k].kind # "Relation"

\* A brief view with nested walk lines and two Relations.
C11_Witness ==
    /\ HasG
    /\ brief_outputs # <<>>
    /\ Len(G.relations) >= 2
    /\ \E k \in 1..Len(brief_outputs[1]) :
          brief_outputs[1][k].kind \in WalkKinds /\ brief_outputs[1][k].indent >= 1

-----------------------------------------------------------------------------
(* Transforms without numbers in the brief view: C13                       *)

\* C13: a Transform built from a text with no numeric token renders its
\* matrix as the marker '[]', and the brief view of a document holding such
\* a Transform is produced without error.
C13_Original ==
    (HasGraphElement
     /\ \E t \in transform_elements : tokens_of(text_or_empty(t)) = <<>>) =>
        /\ pc # "brief_raised"
        /\ \A n \in 1..Len(brief_outputs) : \A k \in 1..Len(brief_outputs[n]) :
              brief_outputs[n][k].kind = "Transform" =>
                  brief_outputs[n][k].fields = << <<"matrix", <<"[", "]">> >> >>

-----------------------------------------------------------------------------
(* The record builder's choice of children: C14                            *)

\* The children of an element whose tag is exactly the given name.
children_tagged(owner, tag) ==
    {k \in 1..Len(owner.children) : owner.children[k].tag = tag}

\* C14: a child yields a record of kind K only when its tag name is K; a
\* child of any other tag name ('SubPart', 'ProductInstance', 'Other') is
\* skipped and mapped to no record.
C14_Original ==
    (HasG /\ HasGraphElement) =>
        /\ Len(G.instances) = Cardinality(children_tagged(graph_element, InstanceTag))
        /\ Len(G.parts) = Cardinality(children_tagged(graph_element, PartTag))
        /\ Len(G.general_objects)
              = Cardinality(children_tagged(graph_element, GeneralObjectTag))
        /\ Len(G.relations) = Cardinality(children_tagged(graph_element, RelationTag))
        /\ \A i \in 1..Len(G.parts) :
              G.parts[i].representation # <<>> =>
                  children_tagged(part_element(i), RepresentationTag) # {}

-----------------------------------------------------------------------------
(* The registry's content and a second resolution pass: C15, C16           *)

RegistryKinds == {"Instance", "Part", "GeneralObject", "Relation", "CompoundRep"}

registry_values == {id_to_object_map[k] : k \in DOMAIN id_to_object_map}

\* The records of the four collections and the owned CompoundReps that
\* carry a present, non-empty identifier.
identified(graph) == {h \in registrable(graph) : Truthy(deref(graph, h).id)}

\* C15 as stated: after population the registry holds exactly the
\* identified records of the four collections and the owned CompoundReps;
\* no value is of another kind and no key is empty or absent.
C15_Original ==
    (AfterPopulate /\ HasG) =>
        /\ registry_values = identified(G)
        /\ \A k \in DOMAIN id_to_object_map :
              Truthy(k) /\ id_to_object_map[k].kind \in RegistryKinds

\* C15 (amended): after population every registry value is an identified
\* record of the four collections or an owned CompoundRep, stored under its
\* own identifier, which is present and not empty; no value is of another
\* kind; and every identified record is held unless another record with
\* its identifier is held in its place.
C15_RegistryHolds ==
    (AfterPopulate /\ HasDocument) =>
        IF HasG
        THEN LET held == registry_values
                 records == identified(G)
             IN /\ held \subseteq records
                /\ \A k \in DOMAIN id_to_object_map :
                      /\ Truthy(k)
                      /\ id_to_object_map[k].kind \in RegistryKinds
                      /\ deref(G, id_to_object_map[k]).id = k
                /\ \A h \in records : id_to_object_map[deref(G, h).id] \in records
        ELSE id_to_object_map = EmptyMap

\* A registry that holds a CompoundRep in place of an Instance with its
\* identifier, of a document whose Representation has an identifier that
\* is no key.
C15_Witness ==
    /\ AfterPopulate
    /\ HasG
    /\ \E k \in DOMAIN id_to_object_map :
          /\ id_to_object_map[k].kind = "CompoundRep"
          /\ \E i \in 1..Len(G.instances) : G.instances[i].id = k
    /\ \E i \in parts_with_representation(G) :
          /\ Truthy(G.parts[i].representation[1].id)
          /\ G.parts[i].representation[1].id \notin DOMAIN id_to_object_map

\* C16: a second resolution pass over the resolved records and the same
\* registry leaves part_references, related_objects and child_objects as
\* the first pass made them: same records, same order, nothing doubled.
C16_ResolveIdempotent ==
    (pc = "parsed" /\ HasG) =>
        LET again == graph_of(resolve_references(id_to_object_map, plmxml[1]))
        IN /\ \A i \in 1..Len(G.instances) :
                 again.instances[i].part_references = G.instances[i].part_references
           /\ \A i \in 1..Len(G.relations) :
                 again.relations[i].related_objects = G.relations[i].related_objects
           /\ \A i \in 1..Len(G.parts) :
                 again.parts[i].child_objects = G.parts[i].child_objects
           /\ again = G

\* A resolved document in which an Instance, a Part and a Relation each
\* hold resolved references.
C16_Witness ==
    /\ pc = "parsed"
    /\ HasG
    /\ \E i \in 1..Len(G.instances) : Len(G.instances[i].part_references) >= 2
    /\ \E i \in 1..Len(G.parts) : G.parts[i].child_objects # <<>>
    /\ \E i \in 1..Len(G.relations) : Len(G.relations[i].related_objects) >= 2

-----------------------------------------------------------------------------
(* Dispatch among the lookup maps: C17                                     *)

\* The kinds whose lookup map has the identifier as a key.
kinds_of_key(graph, k) ==
    (IF k \in DOMAIN part_map(graph) THEN {"Part"} ELSE {})
    \cup (IF k \in DOMAIN instance_map(graph) THEN {"Instance"} ELSE {})
    \cup (IF k \in DOMAIN repr_map(graph) THEN {"Representation"} ELSE {})
    \cup (IF k \in DOMAIN compound_rep_map(graph) THEN {"CompoundRep"} ELSE {})

walk_rank(kind) ==
    CASE kind = "Part" -> 1
      [] kind = "Instance" -> 2
      [] kind = "Representation" -> 3
      [] kind = "CompoundRep" -> 4

\* The lines of the walk's four kinds that carry the identifier.
walk_lines_of(lines, k) ==
    {i \in 1..Len(lines) : lines[i].kind \in WalkKinds /\ lines[i].id = k}

\* At most one line carries the identifier, and it is of the first kind,
\* in the order Part, Instance, Representation, CompoundRep, that has it.
by_priority(lines, kinds, k) ==
    /\ Cardinality(walk_lines_of(lines, k)) <= 1
    /\ \A i \in walk_lines_of(lines, k) :
          /\ lines[i].kind \in kinds
          /\ \A other \in kinds : walk_rank(lines[i].kind) <= walk_rank(other)

\* C17: an identifier that is a key of more than one lookup map is rendered
\* by the priority Part, Instance, Representation, CompoundRep: once the
\* walk has visited it exactly one line carries it, of the highest-priority
\* kind whose map has it, and no record of a lower-priority kind with that
\* identifier is printed.
C17_PriorityDispatch ==
    HasG =>
        \A k \in walk_keys(G) :
            LET kinds == kinds_of_key(G, k)
            IN Cardinality(kinds) >= 2 =>
                  /\ by_priority(output_lines, kinds, k)
                  /\ pc = "brief" =>
                        (k \in output_objects <=> walk_lines_of(output_lines, k) # {})
                  /\ \A n \in 1..Len(brief_outputs) :
                        /\ by_priority(brief_outputs[n], kinds, k)
                        /\ k \in root_ids => walk_lines_of(brief_outputs[n], k) # {}

\* A brief view with a line for a root identifier that is a key of the Part
\* map and of the Instance map, and a line for an identifier that is a key
\* of the Instance map and of the CompoundRep map.
C17_Witness ==
    /\ HasG
    /\ brief_outputs # <<>>
    /\ \E k \in root_ids :
          /\ {"Part", "Instance"} \subseteq kinds_of_key(G, k)
          /\ walk_lines_of(brief_outputs[1], k) # {}
    /\ \E k \in walk_keys(G) :
          /\ {"Instance", "CompoundRep"} \subseteq kinds_of_key(G, k)
          /\ walk_lines_of(brief_outputs[1], k) # {}

-----------------------------------------------------------------------------
(* Locals of a call do not outlive it: C18                                 *)

\* A step of a render call: output_as_yaml, or any part of output_as_brief.
render_step ==
    /\ pc \in {"parsed", "brief"}
    /\ pc' \in {"parsed", "brief", "brief_raised"}

\* Every entry of the registry is an entry of the Document of this call.
C18_RegistryOfThisCall ==
    /\ pc \in {"start", "built", "parse_raised"} => id_to_object_map = EmptyMap
    /\ (AfterPopulate /\ HasDocument) =>
          IF HasG
          THEN /\ registry_values \subseteq identified(G)
               /\ \A k \in DOMAIN id_to_object_map :
                     deref(G, id_to_object_map[k]).id = k
          ELSE id_to_object_map = EmptyMap

\* C18: the visited set and the registry are made anew by each call and do
\* not outlive it.  A render step changes no record of the Document and no
\* registry; output_as_brief starts with an empty visited set, so every call
\* on the same Document returns the lines of the first call; the registry
\* of a parse_plmxml call holds records of its own Document only, whatever
\* the call before it registered, and the registry of that earlier call is
\* not changed by the later one.
C18_CallLocalState ==
    /\ [][render_step =>
             /\ plmxml' = plmxml
             /\ id_to_object_map' = id_to_object_map]_vars
    /\ [][prior_registry' # prior_registry =>
             pc' = "start" /\ prior_registry' = id_to_object_map]_vars
    /\ [][(pc = "parsed" /\ pc' = "brief") => output_objects' = {}]_vars
    /\ [](pc = "parsed" => output_objects = {})
    /\ [](\A n \in 1..Len(brief_outputs) : brief_outputs[n] = brief_outputs[1])
    /\ []C18_RegistryOfThisCall

\* After a second parse_plmxml call, on a document that lacks an identifier
\* the first call registered and shares another with it, output_as_brief
\* has returned twice and its view has lines of the walk.
C18_Witness ==
    /\ pc = "parsed"
    /\ HasG
    /\ Len(brief_outputs) >= 2
    /\ \E i \in 1..Len(brief_outputs[1]) : brief_outputs[1][i].kind \in WalkKinds
    /\ \E k \in DOMAIN prior_registry : k \notin DOMAIN id_to_object_map
    /\ \E k \in DOMAIN prior_registry : k \in DOMAIN id_to_object_map

-----------------------------------------------------------------------------
(* A Part's own Representation in the brief view: C19                      *)

\* Line i is a Part line; if the Part printed owns a Representation, the
\* next line is that Representation's, one level deeper, and the lines
\* after it are its CompoundReps', in order, two levels deeper.
own_representation_follows(lines, i) ==
    LET part == deref(G, part_map(G)[lines[i].id])
    IN part.representation # <<>> =>
          LET rep == part.representation[1]
              n == Len(rep.compound_reps)
          IN /\ i + 1 + n <= Len(lines)
             /\ lines[i + 1].kind = "Representation"
             /\ lines[i + 1].id = rep.id
             /\ lines[i + 1].indent = lines[i].indent + 1
             /\ \A j \in 1..n :
                   /\ lines[i + 1 + j].kind = "CompoundRep"
                   /\ lines[i + 1 + j].id = rep.compound_reps[j].id
                   /\ lines[i + 1 + j].indent = lines[i].indent + 2

\* C19 (as stated): in every returned brief view, every Part line of a Part
\* that owns a Representation is followed, one level deeper, by the line of
\* that Part's own Representation and then the lines of that
\* Representation's own CompoundReps, whatever identifiers the
\* Representations of the document carry.
C19_Original ==
    HasG =>
        \A n \in 1..Len(brief_outputs) :
            \A i \in 1..Len(brief_outputs[n]) :
                brief_outputs[n][i].kind = "Part" =>
                    own_representation_follows(brief_outputs[n], i)

-----------------------------------------------------------------------------
(* An Instance's children in the brief view and in the resolver: C20       *)

\* The record lines printed as direct children of line i.
direct_children(lines, i) ==
    {j \in (i + 1)..Len(lines) :
        /\ lines[j].kind \in WalkKinds
        /\ lines[j].indent = lines[i].indent + 1
        /\ \A m \in (i + 1)..j : lines[m].indent > lines[i].indent}

\* C20 (as stated): in every returned brief view, every record line that is
\* a direct child of an Instance line is the line of a member of that
\* Instance's resolved part_references, and every member of
\* part_references is a Part.
C20_Original ==
    HasG =>
        /\ \A i \in 1..Len(G.instances) :
              \A r \in 1..Len(G.instances[i].part_references) :
                  G.instances[i].part_references[r].kind = "Part"
        /\ \A n \in 1..Len(brief_outputs) :
              \A i \in 1..Len(brief_outputs[n]) :
                  brief_outputs[n][i].kind = "Instance" =>
                      LET refs == deref(G, instance_map(G)[brief_outputs[n][i].id]).part_references
                      IN \A j \in direct_children(brief_outputs[n], i) :
                            \E r \in 1..Len(refs) :
                                /\ refs[r].kind = brief_outputs[n][j].kind
                                /\ deref(G, refs[r]).id = brief_outputs[n][j].id

====
